---- MODULE Spec2Model ----
(***************************************************************************)
(* 01bsp_radio.c (at86rf215 project): mote_main and its five callbacks.    *)
(*                                                                         *)
(* mote_main is one thread of control; the callbacks run in interrupt      *)
(* context, each to completion, between any two steps of mote_main.  A     *)
(* step of mote_main is one statement, except that a read-modify-write of  *)
(* the shared word app_vars.flags is two steps (the read into a register,  *)
(* then the write), because the C statement `flags &= ~X` on a plain       *)
(* uint8_t promises no atomicity.  Program positions are named after the   *)
(* source line the next step executes.                                     *)
(*                                                                         *)
(* The byte is scaled: the 8-bit index and counters count modulo MaxU8+1   *)
(* (256 in the build), and LENGTH_PACKET (2047 in the build) stays beyond  *)
(* the range of a byte.                                                    *)
(***************************************************************************)
EXTENDS Naturals, Sequences, FiniteSets

VARIABLES
    pc,          \* position of mote_main
    flags,       \* app_vars.flags
    state,       \* app_vars.state
    packet,      \* app_vars.packet
    packet_len,  \* app_vars.packet_len
    i,           \* mote_main's local uint8_t i
    tmp,         \* register holding the flags word between read and write
    dbg,         \* app_dbg
    leds,        \* the two LEDs driven through leds_*()
    radio,       \* mode the radio was last put in through radio_*()
    timer,       \* TRUE while a bsp_timer firing is scheduled
    cbs,         \* callbacks registered with the drivers
    hist         \* history: the callbacks run, the passes started, the
                 \* handler blocks entered and the driver calls issued, in the
                 \* order they happened

vars == <<pc, flags, state, packet, packet_len, i, tmp, dbg, leds, radio,
          timer, cbs, hist>>

----------------------------------------------------------------------------
(* Bounds *)

\* largest value of the scaled uint8_t (255 in the build)
MaxU8 == 2

\* number of notifications delivered in one run
MaxNotif == 3

----------------------------------------------------------------------------
(* Program constants *)

APP_FLAG_START_FRAME == 1
APP_FLAG_END_FRAME == 2
APP_FLAG_TIMER == 4

APP_STATE_TX == 1
APP_STATE_RX == 2

ID == 153

\* sizeof(app_vars.packet): 2043+LENGTH_CRC = 2047 in the build, more than a
\* uint8_t can hold; scaled with the byte
LENGTH_PACKET == 2 * (MaxU8 + 1) - 1

U8(n) == n % (MaxU8 + 1)

\* the C indices of app_vars.packet; byte j is element j+1 of the sequence packet
PacketIdx == 0 .. (LENGTH_PACKET - 1)

FilledWith(b) == [n \in 1 .. LENGTH_PACKET |-> b]

\* f & b # 0, f | b, f & ~b for a single bit b
HasFlag(f, b) == (f \div b) % 2 = 1

\* a raise that counts the occurrences instead of setting the bit
SetFlag_Counts(f, b) == f + b

SetFlag(f, b) == IF HasFlag(f, b) THEN f ELSE f + b
ClrFlag(f, b) == IF HasFlag(f, b) THEN f - b ELSE f

AllID == \A j \in PacketIdx : packet[j + 1] = ID

----------------------------------------------------------------------------
(* Initial states *)

\* mote_main starts at InitEntry.  The index of its two payload loops (lines
\* 99-101 and 201-203) cannot reach packet_len, so no run that starts there gets
\* past line 101 (see C4).  The code behind each loop is therefore examined from
\* the state in which it is entered once its loop is left: AfterStartupFill for
\* lines 103-217, AfterTimerFill for lines 206-217 and the passes that follow.

ZeroDbg == [num_radioTimerOverflows |-> 0, num_radioTimerCompare |-> 0,
            num_startFrame |-> 0, num_endFrame |-> 0, num_timer |-> 0]

\* entry of mote_main: app_vars and app_dbg are zero-initialised globals
InitEntry ==
    /\ pc = "L86"
    /\ flags = 0 /\ state = 0
    /\ packet = FilledWith(0)
    /\ packet_len = 0
    /\ radio = "none" /\ timer = FALSE /\ cbs = {}
    /\ hist = <<>>

\* line 103, reached when the start-up loop of lines 99-101 is left
AfterStartupFill ==
    /\ pc = "L103"
    /\ flags = 0 /\ state = 0
    /\ packet = FilledWith(ID)
    /\ packet_len = LENGTH_PACKET
    /\ radio = "none" /\ timer = FALSE /\ cbs = {"radio"}
    /\ hist = <<>>

\* line 206, reached when the loop of lines 201-203 is left: the pass was
\* started and the TIMER block entered in mode RX with the timer flag set, and
\* the block has switched the radio off
AfterTimerFill ==
    /\ pc = "L206"
    /\ flags = APP_FLAG_TIMER /\ state = APP_STATE_RX
    /\ packet = FilledWith(ID)
    /\ packet_len = LENGTH_PACKET
    /\ radio = "off" /\ timer = TRUE /\ cbs = {"radio", "timer"}
    /\ hist = <<[e |-> "pass", m |-> APP_STATE_RX, f |-> APP_FLAG_TIMER],
                [e |-> "TIMER", m |-> APP_STATE_RX, f |-> APP_FLAG_TIMER],
                [e |-> "radio_rfOff", m |-> APP_STATE_RX, f |-> APP_FLAG_TIMER]>>

Init ==
    /\ InitEntry \/ AfterStartupFill \/ AfterTimerFill
    /\ i = 0 /\ tmp = 0
    /\ dbg = ZeroDbg
    /\ leds = [sync |-> FALSE, error |-> FALSE]

----------------------------------------------------------------------------
(* Callbacks (interrupt context) *)

mainOnly == <<state, packet, packet_len, i, tmp, leds, radio>>

\* board_sleep() returns when an interrupt has been served
Woken == IF pc = "asleep" THEN "L121" ELSE pc

\* a history entry: e names the callback, the handler block, the driver call
\* or the start of a pass, m and f are app_vars.state and app_vars.flags just
\* before it
Ev(name) == [e |-> name, m |-> state, f |-> flags]

Callbacks == {"cb_radioTimerOverflows", "cb_radioTimerCompare",
              "cb_startFrame", "cb_endFrame", "cb_timer"}

IsCallback(h) == h.e \in Callbacks

Delivered == SelectSeq(hist, IsCallback)

Deliver(name) ==
    /\ Len(Delivered) < MaxNotif
    /\ hist' = Append(hist, Ev(name))
    /\ pc' = Woken

cb_radioTimerOverflows ==
    /\ "radio" \in cbs
    /\ Deliver("cb_radioTimerOverflows")
    /\ dbg' = [dbg EXCEPT !.num_radioTimerOverflows = U8(@ + 1)]
    /\ UNCHANGED <<flags, timer, cbs, mainOnly>>

cb_radioTimerCompare ==
    /\ "radio" \in cbs
    /\ Deliver("cb_radioTimerCompare")
    /\ dbg' = [dbg EXCEPT !.num_radioTimerCompare = U8(@ + 1)]
    /\ UNCHANGED <<flags, timer, cbs, mainOnly>>

cb_startFrame ==
    /\ "radio" \in cbs
    /\ Deliver("cb_startFrame")
    /\ flags' = SetFlag(flags, APP_FLAG_START_FRAME)
    /\ dbg' = [dbg EXCEPT !.num_startFrame = U8(@ + 1)]
    /\ UNCHANGED <<timer, cbs, mainOnly>>

\* cb_endFrame doing the work of the END_FRAME block itself: the mode is
\* switched back to RX in interrupt context
cb_endFrame_SwitchesMode ==
    /\ "radio" \in cbs
    /\ Deliver("cb_endFrame")
    /\ flags' = SetFlag(flags, APP_FLAG_END_FRAME)
    /\ dbg' = [dbg EXCEPT !.num_endFrame = U8(@ + 1)]
    /\ state' = APP_STATE_RX
    /\ UNCHANGED <<timer, cbs, packet, packet_len, i, tmp, leds, radio>>

cb_endFrame ==
    /\ "radio" \in cbs
    /\ Deliver("cb_endFrame")
    /\ flags' = SetFlag(flags, APP_FLAG_END_FRAME)
    /\ dbg' = [dbg EXCEPT !.num_endFrame = U8(@ + 1)]
    /\ UNCHANGED <<timer, cbs, mainOnly>>

\* cb_timer without line 256: the one-shot timer is left unscheduled
cb_timer_OneShot ==
    /\ "timer" \in cbs /\ timer
    /\ Deliver("cb_timer")
    /\ flags' = SetFlag(flags, APP_FLAG_TIMER)
    /\ dbg' = [dbg EXCEPT !.num_timer = U8(@ + 1)]
    /\ timer' = FALSE
    /\ UNCHANGED <<cbs, mainOnly>>

\* the one-shot timer fires only when scheduled, and cb_timer schedules it again
cb_timer ==
    /\ "timer" \in cbs /\ timer
    /\ Deliver("cb_timer")
    /\ flags' = SetFlag(flags, APP_FLAG_TIMER)
    /\ dbg' = [dbg EXCEPT !.num_timer = U8(@ + 1)]
    /\ timer' = TRUE
    /\ UNCHANGED <<cbs, mainOnly>>

Callback ==
    \/ cb_radioTimerOverflows
    \/ cb_radioTimerCompare
    \/ cb_startFrame
    \/ cb_endFrame
    \/ cb_timer

----------------------------------------------------------------------------
(* mote_main: start-up *)

cbOnly == <<dbg>>

\* line 86
Memset ==
    /\ pc = "L86"
    /\ flags' = 0 /\ state' = 0 /\ packet_len' = 0
    /\ packet' = FilledWith(0)
    /\ pc' = "L89"
    /\ UNCHANGED <<i, tmp, leds, radio, timer, cbs, hist, cbOnly>>

\* lines 89-95
RegisterRadioCbs ==
    /\ pc = "L89"
    /\ cbs' = cbs \cup {"radio"}
    /\ pc' = "L98"
    /\ UNCHANGED <<flags, state, packet, packet_len, i, tmp, leds, radio,
                   timer, hist, cbOnly>>

\* line 98 and the initialisation of the for statement of line 99
PrepareLen ==
    /\ pc = "L98"
    /\ packet_len' = LENGTH_PACKET
    /\ i' = 0
    /\ pc' = "L99"
    /\ UNCHANGED <<flags, state, packet, tmp, leds, radio, timer, cbs,
                   hist, cbOnly>>

\* for (i=...;i<app_vars.packet_len;i++) app_vars.packet[i] = ID;  one
\* evaluation of the condition, and the body and the increment when it holds
FillCond == i < packet_len

Fill(at, exit) ==
    /\ pc = at
    /\ IF FillCond
       THEN /\ packet' = [packet EXCEPT ![i + 1] = ID]
            /\ i' = U8(i + 1)
            /\ pc' = at
       ELSE /\ pc' = exit
            /\ UNCHANGED <<packet, i>>
    /\ UNCHANGED <<flags, state, packet_len, tmp, leds, radio, timer, cbs,
                   hist, cbOnly>>

\* lines 99-101
FillStartup == Fill("L99", "L103")

\* lines 104-105
StartTimer ==
    /\ pc = "L103"
    /\ cbs' = cbs \cup {"timer"}
    /\ timer' = TRUE
    /\ pc' = "L108"
    /\ UNCHANGED <<flags, state, packet, packet_len, i, tmp, leds, radio,
                   hist, cbOnly>>

\* lines 108-113
PrepareRadio ==
    /\ pc = "L108"
    /\ radio' = "rx"
    /\ hist' = hist \o <<Ev("radio_rfOn"), Ev("radio_setFrequency"),
                         Ev("radio_rxEnable")>>
    /\ state' = APP_STATE_RX
    /\ pc' = "L116r"
    /\ UNCHANGED <<flags, packet, packet_len, i, tmp, leds, timer, cbs, cbOnly>>

\* line 116, app_vars.flags |= APP_FLAG_TIMER: the read
PresetTimerRead ==
    /\ pc = "L116r"
    /\ tmp' = flags
    /\ pc' = "L116w"
    /\ UNCHANGED <<flags, state, packet, packet_len, i, leds, radio, timer,
                   cbs, hist, cbOnly>>

\* line 116: the write
PresetTimerWrite ==
    /\ pc = "L116w"
    /\ flags' = SetFlag(tmp, APP_FLAG_TIMER)
    /\ tmp' = 0
    /\ pc' = "L121"
    /\ UNCHANGED <<state, packet, packet_len, i, leds, radio, timer, cbs,
                   hist, cbOnly>>

----------------------------------------------------------------------------
(* mote_main: the dispatch loop, lines 118-217 *)

\* memory mote_main shares with nobody and does not write outside the blocks
quiet == <<state, packet, packet_len, i, leds, radio, timer, cbs, hist,
           cbOnly>>

\* line 121: while (app_vars.flags==0x00)
SleepTest ==
    /\ pc = "L121"
    /\ pc' = IF flags = 0 THEN "L122" ELSE "L126"
    /\ UNCHANGED <<flags, tmp, quiet>>

\* line 122: board_sleep() suspends the CPU until an interrupt is served
BoardSleep ==
    /\ pc = "L122"
    /\ pc' = "asleep"
    /\ UNCHANGED <<flags, tmp, quiet>>

\* line 126: while (app_vars.flags); when it holds, a pass over the three
\* blocks starts (entered in the history with the flags it starts with); when
\* it fails, while (1) starts over
DrainTest ==
    /\ pc = "L126"
    /\ IF flags # 0
       THEN /\ pc' = "L131"
            /\ hist' = Append(hist, Ev("pass"))
       ELSE /\ pc' = "L121"
            /\ UNCHANGED hist
    /\ UNCHANGED <<flags, tmp, state, packet, packet_len, i, leds, radio,
                   timer, cbs, cbOnly>>

\* if (app_vars.flags & KIND) of lines 131, 156, 192
FlagTest(at, kind, taken, skipped) ==
    /\ pc = at
    /\ pc' = IF HasFlag(flags, kind) THEN taken ELSE skipped
    /\ UNCHANGED <<flags, tmp, quiet>>

\* app_vars.flags &= ~KIND of lines 150, 186, 214: the read
ClearRead(at, next) ==
    /\ pc = at
    /\ tmp' = flags
    /\ pc' = next
    /\ UNCHANGED <<flags, quiet>>

\* the word written back by app_vars.flags &= ~KIND
Cleared(word, kind) == ClrFlag(word, kind)

\* app_vars.flags &= ~KIND: the write
ClearWrite(at, kind, next) ==
    /\ pc = at
    /\ flags' = Cleared(tmp, kind)
    /\ tmp' = 0
    /\ pc' = next
    /\ UNCHANGED quiet

\* line 131
StartFrameTest == FlagTest("L131", APP_FLAG_START_FRAME, "L134", "L156")

\* lines 134-147: the switch of the START_FRAME block
StartFrameLed(s) ==
    CASE s = APP_STATE_RX -> "leds_error_on"
      [] s = APP_STATE_TX -> "leds_sync_on"
      [] OTHER -> "none"

LedsAfter(l, call) ==
    CASE call = "leds_error_on" -> [l EXCEPT !.error = TRUE]
      [] call = "leds_error_off" -> [l EXCEPT !.error = FALSE]
      [] call = "leds_sync_on" -> [l EXCEPT !.sync = TRUE]
      [] call = "leds_sync_off" -> [l EXCEPT !.sync = FALSE]
      [] OTHER -> l

StartFrameBlock ==
    /\ pc = "L134"
    /\ hist' = hist \o (IF StartFrameLed(state) = "none"
                        THEN <<Ev("START_FRAME")>>
                        ELSE <<Ev("START_FRAME"), Ev(StartFrameLed(state))>>)
    /\ leds' = LedsAfter(leds, StartFrameLed(state))
    /\ pc' = "L150r"
    /\ UNCHANGED <<flags, tmp, state, packet, packet_len, i, radio, timer,
                   cbs, cbOnly>>

\* line 150
StartFrameClearRead == ClearRead("L150r", "L150w")
StartFrameClearWrite == ClearWrite("L150w", APP_FLAG_START_FRAME, "L156")

\* line 156
EndFrameTest == FlagTest("L156", APP_FLAG_END_FRAME, "L159", "L192")

\* line 159: the switch of the END_FRAME block selects its case
EndFrameSwitch ==
    /\ pc = "L159"
    /\ hist' = Append(hist, Ev("END_FRAME"))
    /\ pc' = CASE state = APP_STATE_RX -> "L164"
               [] state = APP_STATE_TX -> "L178"
               [] OTHER -> "L186r"
    /\ UNCHANGED <<flags, tmp, state, packet, packet_len, i, leds, radio,
                   timer, cbs, cbOnly>>

\* line 164
EndFrameRxLen ==
    /\ pc = "L164"
    /\ packet_len' = LENGTH_PACKET
    /\ pc' = "L167"
    /\ UNCHANGED <<flags, tmp, state, packet, i, leds, radio, timer, cbs,
                   hist, cbOnly>>

\* radio_getReceivedFrame(buf): the driver copies the n bytes of the frame it
\* holds to the start of buf
ReceivedFrame(buf, n) ==
    [k \in 1 .. LENGTH_PACKET |-> IF k - 1 < n THEN 0 ELSE buf[k]]

\* lengths of the frames the radio delivers
FrameLens == {1, LENGTH_PACKET}

\* lines 167-173
EndFrameRxFetch ==
    /\ pc = "L167"
    /\ \E n \in FrameLens : packet' = ReceivedFrame(packet, n)
    /\ leds' = LedsAfter(leds, "leds_error_off")
    /\ hist' = hist \o <<Ev("radio_getReceivedFrame"), Ev("leds_error_off")>>
    /\ pc' = "L186r"
    /\ UNCHANGED <<flags, tmp, state, packet_len, i, radio, timer, cbs, cbOnly>>

\* lines 178-183 with the mode left as it was
EndFrameTx_KeepsTx ==
    /\ pc = "L178"
    /\ radio' = "rx"
    /\ leds' = LedsAfter(leds, "leds_sync_off")
    /\ hist' = hist \o <<Ev("radio_rxEnable"), Ev("leds_sync_off")>>
    /\ pc' = "L186r"
    /\ UNCHANGED <<flags, tmp, state, packet, packet_len, i, timer, cbs, cbOnly>>

\* lines 178-183
EndFrameTx ==
    /\ pc = "L178"
    /\ radio' = "rx"
    /\ state' = APP_STATE_RX
    /\ leds' = LedsAfter(leds, "leds_sync_off")
    /\ hist' = hist \o <<Ev("radio_rxEnable"), Ev("leds_sync_off")>>
    /\ pc' = "L186r"
    /\ UNCHANGED <<flags, tmp, packet, packet_len, i, timer, cbs, cbOnly>>

\* line 186
EndFrameClearRead == ClearRead("L186r", "L186w")
EndFrameClearWrite == ClearWrite("L186w", APP_FLAG_END_FRAME, "L192")

\* line 192
TimerTest == FlagTest("L192", APP_FLAG_TIMER, "L195", "L126")

\* line 195: does the TIMER block start a transmit in mode s ?
TimerStartsTx(s) == s = APP_STATE_RX

\* lines 195-201: the test of the mode and, in RX, radio_rfOff, the length
\* and the initialisation of the for statement
TimerBlock ==
    /\ pc = "L195"
    /\ IF TimerStartsTx(state)
       THEN /\ hist' = hist \o <<Ev("TIMER"), Ev("radio_rfOff")>>
            /\ radio' = "off"
            /\ packet_len' = LENGTH_PACKET
            /\ i' = 0
            /\ pc' = "L201"
       ELSE /\ hist' = Append(hist, Ev("TIMER"))
            /\ pc' = "L214r"
            /\ UNCHANGED <<radio, packet_len, i>>
    /\ UNCHANGED <<flags, tmp, state, packet, leds, timer, cbs, cbOnly>>

\* lines 201-203
FillTimer == Fill("L201", "L206")

\* lines 206-210
TimerTransmit ==
    /\ pc = "L206"
    /\ radio' = "tx"
    /\ hist' = hist \o <<Ev("radio_loadPacket"), Ev("radio_txEnable"),
                         Ev("radio_txNow")>>
    /\ state' = APP_STATE_TX
    /\ pc' = "L214r"
    /\ UNCHANGED <<flags, tmp, packet, packet_len, i, leds, timer, cbs, cbOnly>>

\* line 214
TimerClearRead == ClearRead("L214r", "L214w")
TimerClearWrite == ClearWrite("L214w", APP_FLAG_TIMER, "L126")

----------------------------------------------------------------------------
(* Specifications *)

Main ==
    \/ Memset
    \/ RegisterRadioCbs
    \/ PrepareLen
    \/ FillStartup
    \/ StartTimer
    \/ PrepareRadio
    \/ PresetTimerRead
    \/ PresetTimerWrite
    \/ SleepTest
    \/ BoardSleep
    \/ DrainTest
    \/ StartFrameTest
    \/ StartFrameBlock
    \/ StartFrameClearRead
    \/ StartFrameClearWrite
    \/ EndFrameTest
    \/ EndFrameSwitch
    \/ EndFrameRxLen
    \/ EndFrameRxFetch
    \/ EndFrameTx
    \/ EndFrameClearRead
    \/ EndFrameClearWrite
    \/ TimerTest
    \/ TimerBlock
    \/ FillTimer
    \/ TimerTransmit
    \/ TimerClearRead
    \/ TimerClearWrite

Next == Main \/ Callback

Spec == Init /\ [][Next]_vars

\* the CPU keeps executing mote_main whenever it is not suspended in board_sleep
FairSpec == Spec /\ WF_vars(Main)

\* a transmit started by radio_txNow (line 208) is in flight until the radio
\* signals the end of the frame, which runs cb_endFrame
TxNowIdx == {n \in 1 .. Len(hist) : hist[n].e = "radio_txNow"}

TxInFlight ==
    \E t \in TxNowIdx : \A n \in (t + 1) .. Len(hist) : hist[n].e # "cb_endFrame"

\* the radio signals the end of the frame it is sending
TxFrameEnd == TxInFlight /\ cb_endFrame

\* the hardware does its part: a transmit in flight ends with its frame-end
\* notification, and the armed timer fires
HwFairSpec == FairSpec /\ WF_vars(TxFrameEnd) /\ WF_vars(cb_timer)

----------------------------------------------------------------------------
(* Vocabulary of the claims *)

RX == APP_STATE_RX
TX == APP_STATE_TX

FlagBits == {APP_FLAG_START_FRAME, APP_FLAG_END_FRAME, APP_FLAG_TIMER}

\* positions of the start-up code, before the dispatch loop runs
StartupPcs == {"L86", "L89", "L98", "L99", "L103", "L108", "L116r", "L116w"}
InLoop == pc \notin StartupPcs

\* the idle wait, entered after the loop saw the flag set empty
AtIdle == pc \in {"L122", "asleep"}

Blocks == {"START_FRAME", "END_FRAME", "TIMER"}
BlockIdx == {n \in 1 .. Len(hist) : hist[n].e \in Blocks}
HasBlock == BlockIdx # {}
LastBlock == hist[CHOOSE n \in BlockIdx : \A k \in BlockIdx : k <= n]
LastBlockIs(name, mode) == HasBlock /\ LastBlock.e = name /\ LastBlock.m = mode

Happened(name) == \E n \in 1 .. Len(hist) : hist[n].e = name

Kinds == {[bit |-> APP_FLAG_START_FRAME, cb |-> "cb_startFrame", blk |-> "START_FRAME"],
          [bit |-> APP_FLAG_END_FRAME, cb |-> "cb_endFrame", blk |-> "END_FRAME"],
          [bit |-> APP_FLAG_TIMER, cb |-> "cb_timer", blk |-> "TIMER"]}

\* the callbacks of kind K that found the bit clear and raised it
Raises(K) == {n \in 1 .. Len(hist) : hist[n].e = K.cb /\ ~HasFlag(hist[n].f, K.bit)}

\* the executions of K's handler block that follow raise n and precede the next raise
HandlingsOf(K, n) ==
    {b \in (n + 1) .. Len(hist) :
        /\ hist[b].e = K.blk
        /\ \A r \in Raises(K) : ~(n < r /\ r < b)}

----------------------------------------------------------------------------
(* C1 *)

\* C1: when the loop is back at the idle wait with the flag set empty, every
\* flag a notification raised has been handled by its handler block exactly once.
C1_EveryFlagHandledOnce ==
    (AtIdle /\ flags = 0) =>
        \A K \in Kinds : \A n \in Raises(K) : Cardinality(HandlingsOf(K, n)) = 1

----------------------------------------------------------------------------
(* C2 *)

TimerRxStep ==
    /\ pc = "L206" /\ LastBlockIs("TIMER", RX)
    /\ state = RX /\ state' = TX

EndTxStep ==
    /\ pc = "L178" /\ LastBlockIs("END_FRAME", TX)
    /\ state = TX /\ state' = RX

ModeStep ==
    InLoop =>
        /\ state' # state => (TimerRxStep \/ EndTxStep)
        /\ (pc = "L206" /\ pc' # pc) => TimerRxStep
        /\ (pc = "L178" /\ pc' # pc) => EndTxStep
        /\ pc \in {"L134", "L150r", "L150w", "L164", "L167"} => state' = state

\* C2: in the dispatch loop the mode changes only from RX to TX, by the TIMER
\* block entered in RX, and from TX to RX, by the END_FRAME block entered in TX;
\* the START_FRAME block and the END_FRAME block in RX leave it alone.
C2_ModeAlternates == [][ModeStep]_vars

\* a transmit was started from RX and its END_FRAME block has put the mode back
C2_Witness ==
    /\ pc = "L186r" /\ state = RX
    /\ LastBlockIs("END_FRAME", TX)
    /\ Happened("radio_txNow")

----------------------------------------------------------------------------
(* C3 *)

\* C3: from the initial condition (loop entered in mode RX with the TIMER flag
\* pre-set) the first dispatch pass fills the packet with ID, initiates a
\* transmit and leaves the mode TX.
C3_FirstPassTransmits ==
    (pc = "L121" /\ ~HasBlock /\ state = RX /\ HasFlag(flags, APP_FLAG_TIMER))
        ~> (/\ state = TX /\ AllID
            /\ Happened("radio_loadPacket") /\ Happened("radio_txEnable")
            /\ Happened("radio_txNow"))

----------------------------------------------------------------------------
(* C4 *)

\* C4: each payload-preparation loop (lines 99-101 and 201-203) terminates,
\* and when it is left every byte of the packet equals ID.
C4_FillTerminates ==
    (pc \in {"L99", "L201"}) ~> (pc \in {"L103", "L206"} /\ AllID)

----------------------------------------------------------------------------
(* C5 *)

ClearWritePcs == {"L150w", "L186w", "L214w"}

RaisedSinceRead(b) == HasFlag(flags, b) /\ ~HasFlag(tmp, b)

KeepsRaisedBits ==
    pc \in ClearWritePcs =>
        \A b \in FlagBits : RaisedSinceRead(b) => HasFlag(flags', b)

\* C5: a bit a callback raised after the loop read the flags word for a clear
\* (set in flags, not in the word read) is still set when the clear has completed.
C5_NoLostUpdate == [][KeepsRaisedBits]_vars

----------------------------------------------------------------------------
(* Scenarios of C6 and C7 *)

FlagCallbacks == {"cb_startFrame", "cb_endFrame", "cb_timer"}

\* a frame start delivered in mode `mode` as entry a, then a frame end as entry
\* b: the only flags callbacks have raised in that mode
FrameRaised(mode, a, b) ==
    /\ a < b
    /\ hist[a].e = "cb_startFrame" /\ hist[a].m = mode
    /\ hist[b].e = "cb_endFrame" /\ hist[b].m = mode
    /\ \A n \in 1 .. (a - 1) : hist[n].e \in FlagCallbacks => hist[n].m # mode
    /\ \A n \in (a + 1) .. Len(hist) : hist[n].e \in FlagCallbacks => n = b

\* since entry a, driver call `first` was issued and `second` after it
InOrderSince(a, first, second) ==
    \E c \in (a + 1) .. Len(hist) : \E d \in (c + 1) .. Len(hist) :
        hist[c].e = first /\ hist[d].e = second

CalledSince(a, name) == \E c \in (a + 1) .. Len(hist) : hist[c].e = name

----------------------------------------------------------------------------
(* C6 *)

\* C6: in mode TX, once FRAME_START and then FRAME_END have been raised and
\* the loop is back at the idle wait, the transmit indicator was turned on and
\* then off, radio_rxEnable was called, the mode is RX and the indicator is off.
C6_TxFrameScenario ==
    \A a, b \in 1 .. Len(hist) :
        (FrameRaised(TX, a, b) /\ AtIdle /\ flags = 0) =>
            /\ InOrderSince(a, "leds_sync_on", "leds_sync_off")
            /\ CalledSince(a, "radio_rxEnable")
            /\ state = RX
            /\ ~leds.sync

----------------------------------------------------------------------------
(* C7 *)

\* C7: in mode RX with no TIMER pending, once FRAME_START and then FRAME_END
\* have been raised and the loop is back at the idle wait, the receive
\* indicator was turned on and then off and the mode is still RX; and the
\* frame is fetched with packet_len reset to the capacity of the buffer.
C7_RxFrameScenario ==
    /\ pc = "L167" => packet_len = LENGTH_PACKET
    /\ \A n \in FrameLens : n <= LENGTH_PACKET
    /\ \A a, b \in 1 .. Len(hist) :
        (/\ FrameRaised(RX, a, b)
         /\ ~HasFlag(hist[a].f, APP_FLAG_TIMER)
         /\ AtIdle /\ flags = 0) =>
            /\ InOrderSince(a, "leds_error_on", "leds_error_off")
            /\ state = RX

----------------------------------------------------------------------------
(* C8 *)

HandlingTimerInTx ==
    \/ pc = "L195" /\ state = TX
    \/ pc \in {"L214r", "L214w"} /\ LastBlockIs("TIMER", TX)

IsDriverCall(h) == h.e \notin (Callbacks \cup Blocks \cup {"pass"})

TimerInTxStep ==
    (HandlingTimerInTx /\ pc' # pc) =>
        /\ state' = TX
        /\ packet' = packet /\ packet_len' = packet_len
        /\ leds' = leds /\ radio' = radio
        /\ SelectSeq(hist', IsDriverCall) = SelectSeq(hist, IsDriverCall)
        /\ \A b \in FlagBits \ {APP_FLAG_TIMER} : HasFlag(flags', b) = HasFlag(flags, b)

\* C8: the steps that handle TIMER in mode TX change nothing but the TIMER bit
\* of the flags: not the mode, the packet, packet_len, the LEDs or the radio.
C8_TimerInTxChangesNothing == [][TimerInTxStep]_vars

----------------------------------------------------------------------------
(* C9 *)

FrameBlockIdx == {n \in BlockIdx : hist[n].e \in {"START_FRAME", "END_FRAME"}}
LastFrameBlock == hist[CHOOSE n \in FrameBlockIdx : \A k \in FrameBlockIdx : k <= n]

\* the loop has handled the start of a frame in mode `mode` and no end since
FrameOpen(mode) ==
    /\ FrameBlockIdx # {}
    /\ LastFrameBlock.e = "START_FRAME" /\ LastFrameBlock.m = mode

\* the END_FRAME block is between its entry and its LED call
ClosingFrame == pc \in {"L164", "L167", "L178"}

\* C9: between the handling of a frame start and of the frame end the sync LED
\* is on when the frame is received and the error LED is on when it is sent;
\* outside such a frame that LED is off.
C9_LedsFollowFrames ==
    /\ FrameOpen(RX) => leds.sync
    /\ FrameOpen(TX) => leds.error
    /\ (~FrameOpen(RX) /\ ~ClosingFrame) => ~leds.sync
    /\ (~FrameOpen(TX) /\ ~ClosingFrame) => ~leds.error

----------------------------------------------------------------------------
(* C10 *)

TestPcs == {"L131", "L156", "L192"}
BitTested == [L131 |-> APP_FLAG_START_FRAME, L156 |-> APP_FLAG_END_FRAME,
              L192 |-> APP_FLAG_TIMER]
BitCleared == [L150w |-> APP_FLAG_START_FRAME, L186w |-> APP_FLAG_END_FRAME,
               L214w |-> APP_FLAG_TIMER]

SkipsAndClears ==
    /\ (pc \in TestPcs /\ ~HasFlag(flags, BitTested[pc]) /\ pc' # pc) =>
            /\ pc' \in {"L156", "L192", "L126"}
            /\ UNCHANGED <<flags, state, packet, packet_len, leds, radio, hist>>
    /\ (pc \in ClearWritePcs /\ pc' # pc) =>
            \A b \in FlagBits \ {BitCleared[pc]} : HasFlag(flags', b) = HasFlag(flags, b)

\* C10: a kind whose bit is clear is skipped without any effect, and the clear
\* of one kind leaves the bits of the other two kinds as they were.
C10_SkipAndPerKindClear == [][SkipsAndClears]_vars

----------------------------------------------------------------------------
(* C11 *)

\* the notifications of one run are used up while a transmit still waits for
\* its frame end, or while the frame end is still pending in the flags
CutShort ==
    /\ Len(Delivered) = MaxNotif
    /\ TxInFlight \/ HasFlag(flags, APP_FLAG_END_FRAME)

\* the TIMER block was entered in RX after an earlier transmit
NextTransmitDue == pc = "L195" /\ state = RX /\ Happened("radio_txNow")

\* C11: with the hardware doing its part, mode TX is always followed by mode
\* RX, and a TIMER block entered in RX after a transmit starts the next
\* transmit (a second radio_txNow).
C11_KeepsTransmitting ==
    /\ (state = TX) ~> (state = RX \/ CutShort)
    /\ NextTransmitDue ~> (Cardinality(TxNowIdx) >= 2)

----------------------------------------------------------------------------
(* C12 *)

\* C12: the loop is never suspended in board_sleep while a flag is pending.
C12_NeverAsleepWithFlag == pc = "asleep" => flags = 0

----------------------------------------------------------------------------
(* C13 *)

\* the passes of the drain loop: entry p starts one, which lasts until the next
PassIdx == {n \in 1 .. Len(hist) : hist[n].e = "pass"}
LaterPasses(p) == {q \in PassIdx : q > p}
PassEnd(p) ==
    IF LaterPasses(p) = {} THEN Len(hist) + 1
    ELSE CHOOSE q \in LaterPasses(p) : \A r \in LaterPasses(p) : q <= r
BlocksOf(p) == {n \in (p + 1) .. (PassEnd(p) - 1) : hist[n].e \in Blocks}
HandledIn(p, K) == \E n \in BlocksOf(p) : hist[n].e = K.blk

\* the pass started by entry p has run through all three blocks
PassOver(p) == LaterPasses(p) # {} \/ pc \in {"L126", "L121", "L122", "asleep"}

Rank == [START_FRAME |-> 1, END_FRAME |-> 2, TIMER |-> 3]

\* positions of a pass behind the entry of each block
BehindTimer == {"L201", "L206", "L214r", "L214w"}
BehindEnd == {"L164", "L167", "L178", "L186r", "L186w", "L192", "L195"} \cup BehindTimer
BehindStart == {"L150r", "L150w", "L156", "L159"} \cup BehindEnd
Behind == [START_FRAME |-> BehindStart, END_FRAME |-> BehindEnd, TIMER |-> BehindTimer]

\* the mode a handler block leaves, given the mode it was entered in
ModeLeft(h) ==
    CASE h.e = "END_FRAME" /\ h.m = TX -> RX
      [] h.e = "TIMER" /\ h.m = RX -> TX
      [] OTHER -> h.m

\* blocks a and b of one pass follow each other
Consecutive(p, a, b) ==
    a < b /\ \A c \in BlocksOf(p) : ~(a < c /\ c < b)

PassInOrder(p) ==
    /\ \A a, b \in BlocksOf(p) : a < b => Rank[hist[a].e] < Rank[hist[b].e]
    /\ \A K \in Kinds :
          (HasFlag(hist[p].f, K.bit) /\ (PassOver(p) \/ pc \in Behind[K.blk]))
              => HandledIn(p, K)
    /\ \A a, b \in BlocksOf(p) : Consecutive(p, a, b) => hist[b].m = ModeLeft(hist[a])

LastPass == CHOOSE p \in PassIdx : LaterPasses(p) = {}

\* a bit that was set when the current pass started is cleared only after its
\* block was entered in this pass
ClearedAfterHandler ==
    \A K \in Kinds :
        (/\ HasFlag(flags, K.bit) /\ ~HasFlag(flags', K.bit)
         /\ PassIdx # {} /\ HasFlag(hist[LastPass].f, K.bit))
            => HandledIn(LastPass, K)

\* a pass starts in mode TX with FRAME_END and TIMER_FIRED pending
TxPassEndAndTimer ==
    /\ pc = "L131" /\ state = TX
    /\ HasFlag(flags, APP_FLAG_END_FRAME) /\ HasFlag(flags, APP_FLAG_TIMER)

\* the current pass is over and its TIMER block, entered in RX, has started a
\* transmit
PassTransmitted ==
    /\ pc = "L126" /\ PassIdx # {} /\ state = TX
    /\ \E n \in BlocksOf(LastPass) :
          /\ hist[n].e = "TIMER" /\ hist[n].m = RX
          /\ \E t \in TxNowIdx : t > n

\* C13: the kinds set when a pass starts are handled within that pass in the
\* order FRAME_START, FRAME_END, TIMER_FIRED, each block entered in the mode
\* the previous one left, each bit cleared only after its block was entered;
\* and a pass started in TX with FRAME_END and TIMER_FIRED pending ends with
\* a new transmit started.
C13_PassOrder ==
    /\ [](\A p \in PassIdx : PassInOrder(p))
    /\ [][ClearedAfterHandler]_vars
    /\ TxPassEndAndTimer ~> PassTransmitted

----------------------------------------------------------------------------
(* C14 *)

\* this step runs the callback of kind K
RaisedBy(K) == Len(hist') = Len(hist) + 1 /\ hist'[Len(hist')].e = K.cb

SetsOwnBit ==
    \A K \in Kinds : RaisedBy(K) =>
        /\ HasFlag(flags', K.bit)
        /\ \A b \in FlagBits \ {K.bit} : HasFlag(flags', b) = HasFlag(flags, b)
        /\ HasFlag(flags, K.bit) => flags' = flags

\* entries of K's handler block
BlockEntries(K) == {n \in 1 .. Len(hist) : hist[n].e = K.blk}

\* line 116 sets the TIMER flag once without a callback
Preset(K) == IF K.bit = APP_FLAG_TIMER THEN 1 ELSE 0

\* C14: a flag callback sets its own bit and leaves the other bits as they
\* were, and leaves the whole word as it was when its bit is already set; so
\* the handler block of a kind is entered at most once per raise that found the
\* bit clear, however many callbacks of the kind ran in between.
C14_RaiseSetsOneBit ==
    /\ [][SetsOwnBit]_vars
    /\ [](\A K \in Kinds :
            Cardinality(BlockEntries(K)) <= Cardinality(Raises(K)) + Preset(K))

\* cb_endFrame has just run with its bit and the TIMER bit already pending,
\* for the second time since the bit was raised
C14_Witness ==
    /\ Len(hist) >= 2
    /\ hist[Len(hist)].e = "cb_endFrame" /\ hist[Len(hist) - 1].e = "cb_endFrame"
    /\ HasFlag(hist[Len(hist)].f, APP_FLAG_END_FRAME)
    /\ HasFlag(hist[Len(hist)].f, APP_FLAG_TIMER)
    /\ ~HasFlag(hist[Len(hist) - 1].f, APP_FLAG_END_FRAME)
    /\ flags = hist[Len(hist)].f

----------------------------------------------------------------------------
(* C15 *)

\* this step runs a callback
CallbackStep == Len(Delivered') = Len(Delivered) + 1

SingleWriter ==
    /\ CallbackStep => UNCHANGED <<state, packet, packet_len>>
    /\ ~CallbackStep => UNCHANGED dbg

\* C15: a callback never changes app_vars.state, app_vars.packet or
\* app_vars.packet_len, and a step of mote_main never changes app_dbg.
C15_SingleWriter == [][SingleWriter]_vars

\* cb_endFrame ran in mode TX, with the packet prepared, and mote_main has
\* since switched the mode back
C15_Witness ==
    /\ state = RX /\ AllID /\ packet_len = LENGTH_PACKET
    /\ dbg.num_endFrame = 1
    /\ \E n \in 1 .. Len(hist) : hist[n].e = "cb_endFrame" /\ hist[n].m = TX

----------------------------------------------------------------------------
(* C16 *)

\* lines 104-105 have been executed
TimerStarted == pc \notin {"L86", "L89", "L98", "L99", "L103"}

TimerFirings == Cardinality({n \in 1 .. Len(hist) : hist[n].e = "cb_timer"})

TimerStep == Len(hist') = Len(hist) + 1 /\ hist'[Len(hist')].e = "cb_timer"

Rearms == TimerStep => (timer /\ timer')

----------------------------------------------------------------------------
(* C17 *)

\* the positions mote_main reaches from its entry (it does not leave the loop
\* of lines 99-101, see C4)
FromEntry == pc \in {"L86", "L89", "L98", "L99"}

\* the memset of line 86 has been executed
Zeroed == pc # "L86"

\* C17: in every state mote_main reaches from its entry, from the zeroing of
\* app_vars onward, app_vars.state is APP_STATE_TX or APP_STATE_RX.
C17_ModeIsTxOrRx ==
    (FromEntry /\ Zeroed) => state \in {APP_STATE_TX, APP_STATE_RX}

----------------------------------------------------------------------------
(* C18 *)

\* this step runs callback cb
StepOf(cb) == Len(hist') = Len(hist) + 1 /\ hist'[Len(hist')].e = cb

CountersGrow ==
    /\ dbg'.num_startFrame >= dbg.num_startFrame
    /\ dbg'.num_endFrame >= dbg.num_endFrame
    /\ dbg'.num_timer >= dbg.num_timer
    /\ StepOf("cb_startFrame") => dbg'.num_startFrame > dbg.num_startFrame
    /\ StepOf("cb_endFrame") => dbg'.num_endFrame > dbg.num_endFrame
    /\ StepOf("cb_timer") => dbg'.num_timer > dbg.num_timer

\* C18: num_startFrame, num_endFrame and num_timer never decrease, and every
\* run of the callback of a counter leaves it greater than before.
C18_CountersGrow == [][CountersGrow]_vars

----------------------------------------------------------------------------
(* C19 *)

\* the last radio_txNow before entry n
LastTxNowBefore(n) ==
    CHOOSE t \in TxNowIdx : t < n /\ \A u \in TxNowIdx : u < n => u <= t

\* END_FRAME block n, entered in TX, handles a frame end the radio signalled
\* after the transmit was started
EndsTheTransmit(n) ==
    /\ \E t \in TxNowIdx : t < n
    /\ \E c \in (LastTxNowBefore(n) + 1) .. (n - 1) : hist[c].e = "cb_endFrame"

TxNowStep == Len(hist') > Len(hist) /\ hist'[Len(hist')].e = "radio_txNow"

NoTxNowInFlight == TxNowStep => ~TxInFlight

\* C19: the mode is RX only when no transmit is in flight, radio_txNow is not
\* called while a transmit is in flight, and an END_FRAME block entered in TX
\* handles the frame end of the transmit, not one raised before the transmit
\* was started.
C19_RxOnlyAfterTransmitEnded ==
    /\ [](state = RX => ~TxInFlight)
    /\ [][NoTxNowInFlight]_vars
    /\ [](\A n \in BlockEntries([blk |-> "END_FRAME"]) :
            hist[n].m = TX => EndsTheTransmit(n))

----------------------------------------------------------------------------
(* C20 *)

\* positions inside while (app_vars.flags) { ... }, its test included
DrainPcs == {"L126", "L131", "L134"} \cup BehindStart

EntersIdleOnEmpty ==
    /\ (pc' = "L122" /\ pc # "L122") => (pc = "L121" /\ flags = 0)
    /\ (pc' = "asleep" /\ pc # "asleep") => pc = "L122"

\* C20: the drain loop is always left for the idle wait (the notifications of
\* a run are finitely many), and the idle wait is entered only from the test
\* of line 121 finding the flags empty.
C20_DrainLoopEnds ==
    /\ [][EntersIdleOnEmpty]_vars
    /\ (pc \in DrainPcs) ~> (pc = "L122")

====
